---- MODULE Spec2Model ----
(***************************************************************************)
(* tune_kernel of kernel_tuner.py: the search-compile-benchmark loop.      *)
(* One call of tune_kernel is one behaviour: the call's arguments, the     *)
(* device and the backend's answers are fixed by Init, and each action is  *)
(* one step of the function body.                                          *)
(***************************************************************************)
EXTENDS Integers, Sequences, FiniteSets, TLC

VARIABLES
    args,            \* the arguments of the call (kernel_name, kernel_string, ...)
    device,          \* the CUDA device: max_threads
    backend,         \* the compiler's and the device's answers, per configuration
    dict_order,      \* iteration order of a plain dict over the parameter names
    pc,              \* position in tune_kernel
    original_kernel, \* line 87
    gpu_args,        \* lines 90-97
    product,         \* the itertools.product iterator of line 100
    idx,             \* number of configurations enumerated so far
    params,          \* line 101
    threads,         \* line 109
    grid,            \* lines 114-115
    kernel_string,   \* lines 118-124
    name,            \* line 123
    func,            \* line 127
    time,            \* line 141
    mem,             \* device memory operations performed (mem_alloc, memcpy_htod)
    enumerated,      \* the configurations the loop has been given, in order
    compiled,        \* the SourceModule(...).get_function(...) calls made
    launched,        \* the kernel launches made
    events,          \* the driver calls of the benchmark, in order
    printed,         \* the lines printed by line 145
    exception,       \* the exception that left tune_kernel, or "None"
    returned         \* the value tune_kernel returned: None, the body has no return

vars == <<args, device, backend, dict_order, pc, original_kernel, gpu_args,
          product, idx, params, threads, grid, kernel_string, name, func, time,
          mem, enumerated, compiled, launched, events, printed, exception,
          returned>>

(***************************************************************************)
(* Bounds of the model.                                                    *)
(***************************************************************************)
MaxParams == 2

(***************************************************************************)
(* Python text.  A str is the sequence of its characters; the identifiers  *)
(* and words the model uses are spelled here.                              *)
(***************************************************************************)
Chars(tok) ==
    CASE tok = "block_size_x" -> <<"b","l","o","c","k","_","s","i","z","e","_","x">>
      [] tok = "block_size_y" -> <<"b","l","o","c","k","_","s","i","z","e","_","y">>
      [] tok = "block_size_z" -> <<"b","l","o","c","k","_","s","i","z","e","_","z">>
      [] tok = "my_block_size_x" ->
            <<"m","y","_","b","l","o","c","k","_","s","i","z","e","_","x">>
      [] tok = "fake_kernel" -> <<"f","a","k","e","_","k","e","r","n","e","l">>
      [] tok = "fake_kernel_helper" ->
            <<"f","a","k","e","_","k","e","r","n","e","l","_","h","e","l","p","e","r">>
      [] tok = "vector_add" -> <<"v","e","c","t","o","r","_","a","d","d">>
      [] tok = "reduce_block_size_x" ->
            <<"r","e","d","u","c","e","_","b","l","o","c","k","_","s","i","z","e",
              "_","x">>
      [] tok = "__global__" -> <<"_","_","g","l","o","b","a","l","_","_">>
      [] tok = "void" -> <<"v","o","i","d">>
      [] tok = "int" -> <<"i","n","t">>
      [] tok = "128" -> <<"1","2","8">>
      [] OTHER -> <<tok>>

RECURSIVE Flatten(_)
Flatten(tokens) ==
    IF tokens = <<>> THEN <<>> ELSE Chars(Head(tokens)) \o Flatten(Tail(tokens))

Digit == <<"0","1","2","3","4","5","6","7","8","9">>

RECURSIVE NatStr(_)
NatStr(n) ==
    IF n < 10 THEN <<Digit[n + 1]>>
    ELSE NatStr(n \div 10) \o <<Digit[(n % 10) + 1]>>

\* str(v) of a Python int
str(v) == IF v < 0 THEN <<"-">> \o NatStr(0 - v) ELSE NatStr(v)

StartsWith(s, prefix) ==
    /\ Len(prefix) <= Len(s)
    /\ SubSeq(s, 1, Len(prefix)) = prefix

\* sub in text
Contains(text, sub) ==
    \E i \in 0..(Len(text) - Len(sub)) : SubSeq(text, i + 1, i + Len(sub)) = sub

\* s.replace(old, new): every non-overlapping occurrence, left to right
RECURSIVE replace(_, _, _)
replace(s, old, new) ==
    IF Len(s) < Len(old) \/ s = <<>> THEN s
    ELSE IF StartsWith(s, old)
         THEN new \o replace(SubSeq(s, Len(old) + 1, Len(s)), old, new)
         ELSE <<Head(s)>> \o replace(Tail(s), old, new)

\* sep.join(items)
RECURSIVE join(_, _)
join(sep, items) ==
    IF items = <<>> THEN <<>>
    ELSE IF Len(items) = 1 THEN items[1]
    ELSE items[1] \o sep \o join(sep, Tail(items))

(***************************************************************************)
(* numpy and dict helpers.                                                 *)
(***************************************************************************)
\* numpy.prod(values); numpy.prod([]) is 1
RECURSIVE prod(_)
prod(values) == IF values = <<>> THEN 1 ELSE Head(values) * prod(Tail(values))

\* the quotient truncated instead of rounded up: int(float(a) / float(b))
truncate(a, b) ==
    LET n == IF b < 0 THEN 0 - a ELSE a
        d == IF b < 0 THEN 0 - b ELSE b
    IN  IF n >= 0 THEN n \div d ELSE 0 - ((0 - n) \div d)

\* int(numpy.ceil(float(a) / float(b))), b # 0
ceil(a, b) ==
    LET n == IF b < 0 THEN 0 - a ELSE a
        d == IF b < 0 THEN 0 - b ELSE b
    IN  IF n % d = 0 THEN n \div d ELSE (n \div d) + 1

Range(s) == {s[j] : j \in DOMAIN s}

\* iteration order of a plain dict with key set K
DictKeys(K) == SelectSeq(dict_order, LAMBDA n : n \in K)

\* tune_params.keys(): insertion order only for an OrderedDict
keys(tp) ==
    IF tp.kind = "OrderedDict" THEN tp.inserted ELSE DictKeys(Range(tp.inserted))

\* tune_params.values(), in the order of keys()
values(tp) == [j \in DOMAIN keys(tp) |-> tp.values[keys(tp)[j]]]

(***************************************************************************)
(* itertools.product over the pools: an odometer, with the rightmost       *)
(* position advancing fastest; no element when a pool is empty.            *)
(***************************************************************************)
Movable(indices, pools) == {j \in DOMAIN pools : indices[j] < Len(pools[j])}

Max(S) == CHOOSE m \in S : \A o \in S : o <= m

HasNext(it, pools) ==
    IF it.started THEN Movable(it.indices, pools) # {}
    ELSE \A j \in DOMAIN pools : pools[j] # <<>>

\* an odometer whose leftmost position advances fastest
NextIndicesLeftmostFastest(it, pools) ==
    IF ~it.started THEN [j \in DOMAIN pools |-> 1]
    ELSE LET m == CHOOSE m \in Movable(it.indices, pools) :
                      \A o \in Movable(it.indices, pools) : m <= o
         IN  [j \in DOMAIN pools |->
                 IF j > m THEN it.indices[j]
                 ELSE IF j = m THEN it.indices[j] + 1 ELSE 1]

NextIndices(it, pools) ==
    IF ~it.started THEN [j \in DOMAIN pools |-> 1]
    ELSE LET m == Max(Movable(it.indices, pools))
         IN  [j \in DOMAIN pools |->
                 IF j < m THEN it.indices[j]
                 ELSE IF j = m THEN it.indices[j] + 1 ELSE 1]

\* dict(zip(tune_params.keys(), element))
Zip(ks, pools, indices) ==
    [k \in Range(ks) |->
        LET j == CHOOSE j \in DOMAIN ks : ks[j] = k IN pools[j][indices[j]]]

(***************************************************************************)
(* The loop body's computations, lines 103-124.                            *)
(***************************************************************************)
\* params.get(k, default)
get(p, k, default) == IF k \in DOMAIN p THEN p[k] ELSE default

\* block sizes with 1 as the default on every axis
BlockSizeDefaultOne(p) ==
    <<get(p, "block_size_x", 1), get(p, "block_size_y", 1),
      get(p, "block_size_z", 1)>>

\* threads, lines 104-109
BlockSize(p) ==
    <<get(p, "block_size_x", 256), get(p, "block_size_y", 1),
      get(p, "block_size_z", 1)>>

\* numpy.prod([params[i] for i in names]), lines 110 and 113
Divisor(p, names) == prod([j \in DOMAIN names |-> p[names[j]]])

div_x(p) == Divisor(p, args.grid_div_x)

\* lines 111-113
div_y(p) == IF args.grid_div_y.is_none THEN 1 ELSE Divisor(p, args.grid_div_y.names)

\* params[i] of a name that is no tunable parameter, lines 110 and 113
RaisesKeyError(p) ==
    \/ \E j \in DOMAIN args.grid_div_x : args.grid_div_x[j] \notin DOMAIN p
    \/ /\ ~args.grid_div_y.is_none
       /\ \E j \in DOMAIN args.grid_div_y.names :
              args.grid_div_y.names[j] \notin DOMAIN p

\* float division by zero, lines 114-115
RaisesZeroDivisionError(p) == div_x(p) = 0 \/ div_y(p) = 0

\* the exception lines 110-115 raise: the lookups come before the divisions
Raised(p) ==
    IF RaisesKeyError(p) THEN "KeyError"
    ELSE IF RaisesZeroDivisionError(p) THEN "ZeroDivisionError"
    ELSE "None"

\* an axis without divisors gets a grid of one block
GridSizeOneWithoutDivisors(p) ==
    <<IF args.grid_div_x = <<>> THEN 1 ELSE ceil(args.problem_size[1], div_x(p)),
      IF args.grid_div_y.is_none \/ args.grid_div_y.names = <<>> THEN 1
      ELSE ceil(args.problem_size[2], div_y(p))>>

\* grid, lines 114-115
GridSize(p) ==
    <<ceil(args.problem_size[1], div_x(p)), ceil(args.problem_size[2], div_y(p))>>

\* lines 119-120: one replace per item of params.iteritems()
RECURSIVE substitute(_, _, _)
substitute(text, order, p) ==
    IF order = <<>> THEN text
    ELSE substitute(replace(text, Chars(Head(order)), str(p[Head(order)])),
                    Tail(order), p)

\* the values joined without a separator
SuffixUnseparated(p) ==
    LET order == DictKeys(DOMAIN p)
    IN  join(<<>>, [j \in DOMAIN order |-> str(p[order[j]])])

\* "_".join([str(i) for i in params.values()]), line 123
Suffix(p) ==
    LET order == DictKeys(DOMAIN p)
    IN  join(<<"_">>, [j \in DOMAIN order |-> str(p[order[j]])])

\* line 123
KernelName(kernel_name, p) == Chars(kernel_name) \o <<"_">> \o Suffix(p)

\* lines 118-124
Specialize(original, kernel_name, p) ==
    replace(substitute(original, DictKeys(DOMAIN p), p),
            Chars(kernel_name), KernelName(kernel_name, p))

(***************************************************************************)
(* The calls the model makes: arguments, device and backend.               *)
(***************************************************************************)
ParamNames == {"block_size_x", "block_size_y", "block_size_z"}

\* candidate lists of one tunable parameter
CandidateLists == {<<>>, <<2>>, <<1, 11>>, <<2, 2>>}

Injective(s) == \A a, b \in DOMAIN s : s[a] = s[b] => a = b

NameSeqs ==
    {s \in UNION {[1..n -> ParamNames] : n \in 0..MaxParams} : Injective(s)}

Orders(S) == {s \in [1..Cardinality(S) -> S] : Injective(s)}

TP(kind, inserted, vals) == [kind |-> kind, inserted |-> inserted, values |-> vals]

X(vals) == TP("dict", <<"block_size_x">>, "block_size_x" :> vals)

XY(xs, ys) ==
    TP("OrderedDict", <<"block_size_x", "block_size_y">>,
       ("block_size_x" :> xs) @@ ("block_size_y" :> ys))

\* a Python number, a numpy scalar such as numpy.int32(v), a numpy array
Scalar(v) == [kind |-> "scalar", v |-> v]
NumpyScalar(v) == [kind |-> "numpy_scalar", v |-> v]
Array(nbytes) == [kind |-> "array", v |-> nbytes]

\* hasattr(arg, "nbytes"), line 93: true of numpy arrays and numpy scalars
HasNbytes(arg) == arg.kind \in {"array", "numpy_scalar"}

NoDivisors == [is_none |-> TRUE, names |-> <<>>]
Divisors(names) == [is_none |-> FALSE, names |-> names]

NoRestrictions == [passed |-> FALSE, list |-> <<>>]
Restrictions(list) == [passed |-> TRUE, list |-> list]
Restriction(param, op, bound) == [param |-> param, op |-> op, bound |-> bound]

\* the reference output of each argument: "None" for an input, "expected"
\* for an output, as in answer = [numpy.zeros(4)] of the test
NoAnswer == [passed |-> FALSE, list |-> <<>>]
Answer(list) == [passed |-> TRUE, list |-> list]

\* test_interface_calls_functions
Default ==
    [args |->
        [kernel_name |-> "fake_kernel",
         kernel_string |-> <<"__global__", " ", "void", " ", "fake_kernel", "(", ")">>,
         problem_size |-> <<1280, 1>>,
         arguments |-> <<NumpyScalar(1280)>>,
         tune_params |-> X(<<128>>),
         grid_div_x |-> <<"block_size_x">>,
         grid_div_y |-> NoDivisors,
         restrictions |-> NoRestrictions,
         answer |-> NoAnswer],
     device |-> [max_threads |-> 1024],
     backend |-> [compile_error |-> {}, launch_error |-> {}, times |-> {5},
                  wrong |-> {}],
     dict_order |-> <<"block_size_x", "block_size_y", "block_size_z">>]

\* every parameter space of at most MaxParams parameters
SpaceCalls ==
    {[Default EXCEPT !.args.tune_params = TP(kind, ns, vals),
                     !.args.grid_div_x = <<>>,
                     !.dict_order = order] :
        order \in Orders(ParamNames),
        <<kind, ns, vals>> \in
            UNION {{<<k, s, f>> : k \in {"dict", "OrderedDict"},
                                   f \in [Range(s) -> CandidateLists]} :
                   s \in NameSeqs}}

\* backends that reject some configurations
BackendCalls ==
    {[Default EXCEPT !.args.tune_params = X(<<128, 256, 512>>),
                     !.backend = [compile_error |-> ce, launch_error |-> le,
                                  times |-> {5, 7}, wrong |-> {}]] :
        ce \in SUBSET (1..3), le \in SUBSET (1..3)}

\* problem sizes and grid divisors
GeometryCalls ==
    {[Default EXCEPT !.args.problem_size = ps,
                     !.args.tune_params = tp,
                     !.args.grid_div_x = gx,
                     !.args.grid_div_y = gy] :
        ps \in {<<1280, 1>>, <<1, 1>>, <<7, 3>>, <<0, 1>>},
        tp \in {X(<<128>>), X(<<2, 3>>), XY(<<2, 4>>, <<2>>), XY(<<0, 2>>, <<3>>),
                TP("dict", <<"block_size_y">>, "block_size_y" :> <<2>>),
                TP("dict", <<"block_size_z", "block_size_x">>,
                   ("block_size_z" :> <<2>>) @@ ("block_size_x" :> <<4>>))},
        gx \in {<<>>, <<"block_size_x">>, <<"block_size_x", "block_size_y">>},
        gy \in {NoDivisors, Divisors(<<>>), Divisors(<<"block_size_y">>)}}

\* kernel sources
Kernels ==
    {<<"fake_kernel", <<"fake_kernel">>>>,
     <<"fake_kernel", <<"__global__", " ", "void", " ", "fake_kernel", "(", ")", "{",
                        "int", " ", "my_block_size_x", "=", "block_size_x", ";", "}">>>>,
     <<"fake_kernel", <<"void", " ", "fake_kernel_helper", "(", ")", ";",
                        "void", " ", "fake_kernel", "(", ")", "{", "i", "=", "128",
                        "*", "block_size_y", ";", "}">>>>,
     <<"vector_add", <<"__global__", " ", "void", " ", "vector_add", "(", ")", "{",
                       "i", "=", "block_size_x", ";", "}">>>>,
     <<"reduce_block_size_x", <<"__global__", " ", "void", " ",
                                "reduce_block_size_x", "(", ")">>>>}

TextCalls ==
    {[Default EXCEPT !.args.kernel_name = k[1],
                     !.args.kernel_string = k[2],
                     !.args.tune_params = tp,
                     !.dict_order = order] :
        k \in Kernels,
        tp \in {X(<<128>>), XY(<<1, 11>>, <<1, 11>>)},
        order \in Orders(ParamNames)}

\* test_interface_handles_max_threads
DeviceCalls ==
    {[Default EXCEPT !.args.kernel_string = <<"fake_kernel">>,
                     !.args.problem_size = <<1, 1>>,
                     !.args.tune_params = tp,
                     !.device = [max_threads |-> mt]] :
        tp \in {X(<<256, 512>>), X(<<512, 256>>), XY(<<16, 32>>, <<16, 32>>)},
        mt \in {256, 1024}}

\* test_interface_handles_restriction
RestrictionCalls ==
    {[Default EXCEPT !.args.kernel_string = <<"fake_kernel">>,
                     !.args.problem_size = <<1, 1>>,
                     !.args.tune_params = X(<<128, 256, 512>>),
                     !.args.restrictions = r] :
        r \in {NoRestrictions, Restrictions(<<>>),
               Restrictions(<<Restriction("block_size_x", ">", 128),
                              Restriction("block_size_x", "<", 512)>>),
               Restrictions(<<Restriction("block_size_x", "<", 128)>>)}}

\* the kernel's arguments: numpy arrays and scalars
ArgumentCalls ==
    {[Default EXCEPT !.args.arguments = a, !.args.tune_params = X(<<128, 256>>)] :
        a \in {<<>>, <<Scalar(0)>>, <<NumpyScalar(0)>>,
               <<Array(32), Array(32), Scalar(8)>>, <<Scalar(8), Array(32)>>}}

\* test_check_kernel_correctness: a reference answer, and kernels that leave
\* their output as it was (the configurations of backend.wrong)
AnswerCalls ==
    {[Default EXCEPT !.args.arguments = <<Array(32), Array(32), Scalar(8)>>,
                     !.args.tune_params = X(<<128, 256>>),
                     !.args.answer = a,
                     !.backend.wrong = w] :
        a \in {NoAnswer, Answer(<<"expected", "None", "None">>),
               Answer(<<"expected", "expected", "None">>)},
        w \in SUBSET (1..2)}

Calls ==
    SpaceCalls \cup BackendCalls \cup GeometryCalls \cup TextCalls
        \cup DeviceCalls \cup RestrictionCalls \cup ArgumentCalls
        \cup AnswerCalls

(***************************************************************************)
(* The state before the call.                                              *)
(***************************************************************************)
Init ==
    /\ \E c \in Calls :
        /\ args = c.args
        /\ device = c.device
        /\ backend = c.backend
        /\ dict_order = c.dict_order
    /\ pc = "call"
    /\ original_kernel = <<>>
    /\ gpu_args = <<>>
    /\ product = [started |-> FALSE, indices |-> <<>>]
    /\ idx = 0
    /\ params = <<>>
    /\ threads = <<0, 0, 0>>
    /\ grid = <<0, 0>>
    /\ kernel_string = <<>>
    /\ name = <<>>
    /\ func = 0
    /\ time = 0
    /\ mem = <<>>
    /\ enumerated = <<>>
    /\ compiled = <<>>
    /\ launched = <<>>
    /\ events = <<>>
    /\ printed = <<>>
    /\ exception = "None"
    /\ returned = [is_none |-> TRUE, report |-> <<>>]

inputs == <<args, device, backend, dict_order, returned>>
locals == <<params, threads, grid, kernel_string, name, func, time>>
logs == <<mem, enumerated, compiled, launched, events, printed>>

(***************************************************************************)
(* def tune_kernel(...), lines 55-87.  The signature has no restrictions   *)
(* and no answer parameter: a call that passes one raises TypeError.       *)
(***************************************************************************)
Call ==
    /\ pc = "call"
    /\ ~args.restrictions.passed
    /\ ~args.answer.passed
    /\ original_kernel' = Flatten(args.kernel_string)
    /\ pc' = IF args.arguments = <<>> THEN "iterate" ELSE "upload"
    /\ UNCHANGED <<inputs, locals, logs, gpu_args, product, idx, exception>>

CallRaises ==
    /\ pc = "call"
    /\ args.restrictions.passed \/ args.answer.passed
    /\ pc' = "raised"
    /\ exception' = "TypeError"
    /\ UNCHANGED <<inputs, locals, logs, original_kernel, gpu_args, product, idx>>

(***************************************************************************)
(* One turn of the loop of lines 91-97.                                    *)
(***************************************************************************)
Allocated == Len(SelectSeq(mem, LAMBDA m : m.op = "mem_alloc"))

Upload ==
    /\ pc = "upload"
    /\ LET i == Len(gpu_args) + 1
           arg == args.arguments[i]
           buf == [kind |-> "devptr", v |-> Allocated + 1]
       IN  /\ IF HasNbytes(arg)
              THEN /\ gpu_args' = Append(gpu_args, buf)
                   /\ mem' = mem \o <<[op |-> "mem_alloc", buf |-> buf.v, arg |-> i],
                                      [op |-> "memcpy_htod", buf |-> buf.v, arg |-> i]>>
              ELSE /\ gpu_args' = Append(gpu_args, arg)
                   /\ mem' = mem
           /\ pc' = IF i = Len(args.arguments) THEN "iterate" ELSE "upload"
    /\ UNCHANGED <<inputs, locals, original_kernel, product, idx, exception,
                   enumerated, compiled, launched, events, printed>>

(***************************************************************************)
(* The head of the loop and the body up to the compilation, lines 100-124. *)
(***************************************************************************)
Pools == values(args.tune_params)

NextParams == Zip(keys(args.tune_params), Pools, NextIndices(product, Pools))

Advance ==
    /\ product' = [started |-> TRUE, indices |-> NextIndices(product, Pools)]
    /\ idx' = idx + 1
    /\ params' = NextParams
    /\ enumerated' = Append(enumerated, NextParams)
    /\ threads' = BlockSize(NextParams)

\* the text left by the previous iteration, where there was one
TemplateCarriedOver == IF kernel_string = <<>> THEN original_kernel ELSE kernel_string

\* kernel_string = original_kernel, line 118
Template == original_kernel

NextConfig ==
    /\ pc = "iterate"
    /\ HasNext(product, Pools)
    /\ Raised(NextParams) = "None"
    /\ Advance
    /\ grid' = GridSize(NextParams)
    /\ kernel_string' = Specialize(Template, args.kernel_name, NextParams)
    /\ name' = KernelName(args.kernel_name, NextParams)
    /\ pc' = "compile"
    /\ UNCHANGED <<inputs, original_kernel, gpu_args, func, time, exception,
                   mem, compiled, launched, events, printed>>

NextConfigRaises ==
    /\ pc = "iterate"
    /\ HasNext(product, Pools)
    /\ Raised(NextParams) # "None"
    /\ Advance
    /\ exception' = Raised(NextParams)
    /\ pc' = "raised"
    /\ UNCHANGED <<inputs, original_kernel, gpu_args, grid, kernel_string, name,
                   func, time, mem, compiled, launched, events, printed>>

\* the product is exhausted: the function ends, returning None
Return ==
    /\ pc = "iterate"
    /\ ~HasNext(product, Pools)
    /\ pc' = "done"
    /\ returned' = [is_none |-> TRUE, report |-> <<>>]
    /\ UNCHANGED <<args, device, backend, dict_order, locals, logs, original_kernel,
                   gpu_args, product, idx, exception>>

(***************************************************************************)
(* SourceModule(kernel_string, ...).get_function(name), lines 127-129.     *)
(* The compiler rejects the sources of backend.compile_error, and          *)
(* get_function raises for a name the compiled source does not define.     *)
(***************************************************************************)
CompileRaised ==
    IF idx \in backend.compile_error THEN "CompileError"
    ELSE IF ~Contains(kernel_string, name) THEN "LogicError"
    ELSE "None"

CompileCall(ok) ==
    [name |-> name, source |-> kernel_string, params |-> params, idx |-> idx,
     ok |-> ok]

Compile ==
    /\ pc = "compile"
    /\ CompileRaised = "None"
    /\ compiled' = Append(compiled, CompileCall(TRUE))
    /\ func' = Len(compiled) + 1
    /\ pc' = "benchmark"
    /\ UNCHANGED <<inputs, original_kernel, gpu_args, product, idx, params, threads,
                   grid, kernel_string, name, time, exception, mem, enumerated,
                   launched, events, printed>>

CompileRaises ==
    /\ pc = "compile"
    /\ CompileRaised # "None"
    /\ compiled' = Append(compiled, CompileCall(FALSE))
    /\ exception' = CompileRaised
    /\ pc' = "raised"
    /\ UNCHANGED <<inputs, locals, original_kernel, gpu_args, product, idx, mem,
                   enumerated, launched, events, printed>>

(***************************************************************************)
(* The benchmark, lines 132-141.  The device rejects a launch whose block  *)
(* exceeds max_threads or whose block or grid has an extent below 1.       *)
(***************************************************************************)
LaunchRejected ==
    \/ idx \in backend.launch_error
    \/ threads[1] * threads[2] * threads[3] > device.max_threads
    \/ \E j \in 1..3 : threads[j] < 1
    \/ \E j \in 1..2 : grid[j] < 1

\* the time read right after end.record(), without the second synchronize
BenchmarkEventsTimeBeforeSynchronize ==
    <<"synchronize", "start.record", "launch", "end.record", "time_since",
      "synchronize">>

\* the device calls of lines 134-141, in order
BenchmarkEvents ==
    <<"synchronize", "start.record", "launch", "end.record", "synchronize",
      "time_since">>

\* the launch of the kernel compiled for the first configuration
LaunchCallFirstHandle(ok) ==
    [func |-> 1, args |-> gpu_args, block |-> threads, grid |-> grid,
     params |-> params, idx |-> idx, ok |-> ok]

\* func(*gpu_args, block=threads, grid=grid), line 137
LaunchCall(ok) ==
    [func |-> func, args |-> gpu_args, block |-> threads, grid |-> grid,
     params |-> params, idx |-> idx, ok |-> ok]

Benchmark ==
    /\ pc = "benchmark"
    /\ ~LaunchRejected
    /\ events' = events \o BenchmarkEvents
    /\ launched' = Append(launched, LaunchCall(TRUE))
    /\ \E t \in backend.times : time' = t
    /\ pc' = "print"
    /\ UNCHANGED <<inputs, original_kernel, gpu_args, product, idx, params, threads,
                   grid, kernel_string, name, func, exception, mem, enumerated,
                   compiled, printed>>

BenchmarkRaises ==
    /\ pc = "benchmark"
    /\ LaunchRejected
    /\ events' = events \o SubSeq(BenchmarkEvents, 1, 3)
    /\ launched' = Append(launched, LaunchCall(FALSE))
    /\ exception' = "LaunchError"
    /\ pc' = "raised"
    /\ UNCHANGED <<inputs, locals, original_kernel, gpu_args, product, idx, mem,
                   enumerated, compiled, printed>>

\* print params, kernel_name, "took:", time, " ms.", line 145
PrintResult ==
    /\ pc = "print"
    /\ printed' = Append(printed, [params |-> params, kernel_name |-> args.kernel_name,
                                   time |-> time])
    /\ pc' = "iterate"
    /\ UNCHANGED <<inputs, locals, original_kernel, gpu_args, product, idx, exception,
                   mem, enumerated, compiled, launched, events>>

Next ==
    \/ Call
    \/ CallRaises
    \/ Upload
    \/ NextConfig
    \/ NextConfigRaises
    \/ Return
    \/ Compile
    \/ CompileRaises
    \/ Benchmark
    \/ BenchmarkRaises
    \/ PrintResult

Spec == Init /\ [][Next]_vars

(***************************************************************************)
(* Notions the properties below are stated with.                           *)
(***************************************************************************)
Terminated == pc \in {"done", "raised"}

RECURSIVE ProductOver(_, _)
ProductOver(f, n) == IF n = 0 THEN 1 ELSE f[n] * ProductOver(f, n - 1)

\* k1 * ... * kn
NumConfigs == ProductOver([j \in DOMAIN Pools |-> Len(Pools[j])], Len(Pools))

Compiled(i) == \E j \in DOMAIN compiled : compiled[j].idx = i
Benchmarked(i) == \E j \in DOMAIN launched : launched[j].idx = i /\ launched[j].ok

(***************************************************************************)
(* C1.  When the compile fails for exactly one of the N configurations,    *)
(* the run is not terminated: every configuration is still compiled, every *)
(* other one is benchmarked, and the report has exactly N-1 entries.       *)
(***************************************************************************)
C1_CompileFailureIsSkipped ==
    ( /\ Terminated
      /\ Cardinality(backend.compile_error \cap (1..NumConfigs)) = 1
      /\ backend.launch_error = {}
      /\ exception \in {"None", "CompileError"} )
    => /\ pc = "done"
       /\ \A i \in 1..NumConfigs :
            /\ Compiled(i)
            /\ i \notin backend.compile_error => Benchmarked(i)
       /\ ~returned.is_none
       /\ Len(returned.report) = NumConfigs - 1

(***************************************************************************)
(* C2.  When the benchmark raises for a configuration, the failure does    *)
(* not leave tune_kernel: the remaining configurations are evaluated and   *)
(* the call returns a report without the failing configuration.            *)
(***************************************************************************)
C2_LaunchFailureIsSkipped ==
    ( /\ Terminated
      /\ \E j \in DOMAIN launched : ~launched[j].ok )
    => /\ pc = "done"
       /\ exception = "None"
       /\ Len(enumerated) = NumConfigs
       /\ ~returned.is_none
       /\ \A j \in DOMAIN launched :
            ~launched[j].ok =>
                \A e \in DOMAIN returned.report :
                    returned.report[e].params # launched[j].params

(***************************************************************************)
(* C3.  Exactly the configurations for which every restriction evaluates   *)
(* true are handed to the backend: those are compiled and launched, and no *)
(* other configuration is.                                                 *)
(***************************************************************************)
Names == Range(args.tune_params.inserted)

\* every total assignment of a candidate value to each parameter
AllConfigs ==
    {p \in [Names -> UNION {Range(args.tune_params.values[k]) : k \in Names}] :
        \A k \in Names : p[k] \in Range(args.tune_params.values[k])}

Satisfies(p, r) ==
    CASE r.op = ">" -> p[r.param] > r.bound
      [] r.op = "<" -> p[r.param] < r.bound

Valid(p) ==
    \A j \in DOMAIN args.restrictions.list : Satisfies(p, args.restrictions.list[j])

C3_OnlyValidConfigurationsReachBackend ==
    ( /\ Terminated
      /\ ~args.answer.passed
      /\ exception \in {"None", "TypeError"} )
    => \A p \in AllConfigs :
         /\ Valid(p) <=> \E j \in DOMAIN compiled : compiled[j].params = p
         /\ Valid(p) <=> \E j \in DOMAIN launched : launched[j].params = p

(***************************************************************************)
(* C4.  tune_kernel returns a report with exactly one entry                *)
(* (configuration, measured time, compiled kernel name) for each           *)
(* configuration that compiled and ran, in the order of enumeration.       *)
(***************************************************************************)
Successful == SelectSeq(launched, LAMBDA l : l.ok)

C4_ReportOfSuccessfulConfigurations ==
    pc = "done"
    => /\ ~returned.is_none
       /\ Len(returned.report) = Len(Successful)
       /\ \A j \in DOMAIN returned.report :
            /\ returned.report[j].params = Successful[j].params
            /\ returned.report[j].time = printed[j].time
            /\ returned.report[j].name = compiled[Successful[j].func].name

(***************************************************************************)
(* C5.  The loop is given k1 * ... * kn configurations, pairwise distinct, *)
(* each a total assignment, in cartesian-product order over the            *)
(* parameters' insertion order, each parameter's values in given order.    *)
(***************************************************************************)
Position(ks, k) == CHOOSE j \in DOMAIN ks : ks[j] = k

\* the number of configurations that share one value at position j
Weight(pools, j) ==
    ProductOver([m \in 1..(Len(pools) - j) |-> Len(pools[j + m])], Len(pools) - j)

\* the i-th element of the cartesian product of the pools, keyed by ks
Nth(ks, pools, i) ==
    [k \in Range(ks) |->
        LET j == Position(ks, k)
        IN  pools[j][(((i - 1) \div Weight(pools, j)) % Len(pools[j])) + 1]]

InsertionPools ==
    [j \in DOMAIN args.tune_params.inserted |->
        args.tune_params.values[args.tune_params.inserted[j]]]

PairwiseDistinct(s) == \A a, b \in DOMAIN s : a # b => s[a] # s[b]

TotalAssignments == \A i \in DOMAIN enumerated : DOMAIN enumerated[i] = Names

\* the claim as stated, for a call that ran to its end
C5_InsertionOrderProduct ==
    pc = "done"
    => /\ Len(enumerated) = NumConfigs
       /\ TotalAssignments
       /\ PairwiseDistinct(enumerated)
       /\ \A i \in DOMAIN enumerated :
            enumerated[i] = Nth(args.tune_params.inserted, InsertionPools, i)

NoRepeatedCandidate == \A k \in Names : Injective(args.tune_params.values[k])

\* C5 as amended: the order is that of tune_params' own iteration over its
\* keys (the insertion order for an OrderedDict only), the configurations
\* given to the loop are the first of that product, all k1 * ... * kn of them
\* once the call has returned, and they are pairwise distinct when no
\* candidate list repeats a value.
C5_IterationOrderProduct ==
    /\ Len(enumerated) <= NumConfigs
    /\ pc = "done" => Len(enumerated) = NumConfigs
    /\ TotalAssignments
    /\ NoRepeatedCandidate => PairwiseDistinct(enumerated)
    /\ \A i \in DOMAIN enumerated :
         enumerated[i] = Nth(keys(args.tune_params), Pools, i)

C5_Witness ==
    /\ pc = "done"
    /\ Len(enumerated) = 4
    /\ NoRepeatedCandidate
    /\ args.tune_params.kind = "dict"
    /\ keys(args.tune_params) # args.tune_params.inserted

(***************************************************************************)
(* C6.  The grid of every launch is, on each axis, the ceiling of the      *)
(* problem size over the product of the configuration's values of the      *)
(* axis' divisor parameters (1 for an empty list, and for the y axis when  *)
(* none is given): (1280,1) with block_size_x = 128 launches block         *)
(* (128,1,1) on grid (10,1), and (1,1) gives grid (1,1).                   *)
(***************************************************************************)
\* g is the least integer with g * d >= a
IsCeiling(g, a, d) ==
    IF d > 0 THEN g * d >= a /\ (g - 1) * d < a
    ELSE d < 0 /\ g * d <= a /\ (g - 1) * d > a

DivisorProduct(p, names) ==
    ProductOver([j \in DOMAIN names |-> p[names[j]]], Len(names))

C6_GridIsCeiling ==
    \A j \in DOMAIN launched :
        LET l == launched[j]
            dx == DivisorProduct(l.params, args.grid_div_x)
            dy == IF args.grid_div_y.is_none THEN 1
                  ELSE DivisorProduct(l.params, args.grid_div_y.names)
        IN  /\ IsCeiling(l.grid[1], args.problem_size[1], dx)
            /\ IsCeiling(l.grid[2], args.problem_size[2], dy)
            /\ ( /\ args.problem_size = <<1280, 1>>
                 /\ l.params = ("block_size_x" :> 128)
                 /\ args.grid_div_x = <<"block_size_x">>
                 /\ args.grid_div_y.is_none )
               => l.block = <<128, 1, 1>> /\ l.grid = <<10, 1>>
            /\ args.problem_size = <<1, 1>> => l.grid = <<1, 1>>

C6_Witness ==
    \E j \in DOMAIN launched :
        /\ launched[j].ok
        /\ args.problem_size = <<7, 3>>
        /\ args.grid_div_x = <<"block_size_x", "block_size_y">>
        /\ launched[j].params = ("block_size_x" :> 2) @@ ("block_size_y" :> 2)
        /\ launched[j].grid = <<2, 2>>

(***************************************************************************)
(* C7.  The block of a launch is (block_size_x, block_size_y,              *)
(* block_size_z) of the configuration, with 1 on every axis whose          *)
(* block_size_* parameter is not tuned, the x axis included.               *)
(***************************************************************************)
Dim(p, k, default) == IF k \in DOMAIN p THEN p[k] ELSE default

C7_UntunedAxesAreOne ==
    \A j \in DOMAIN launched :
        launched[j].ok =>
          launched[j].block =
            <<Dim(launched[j].params, "block_size_x", 1),
              Dim(launched[j].params, "block_size_y", 1),
              Dim(launched[j].params, "block_size_z", 1)>>

\* C7 as amended: an untuned y or z axis is 1, an untuned x axis is 256
C7_UntunedXIs256 ==
    \A j \in DOMAIN launched :
        launched[j].block =
            <<Dim(launched[j].params, "block_size_x", 256),
              Dim(launched[j].params, "block_size_y", 1),
              Dim(launched[j].params, "block_size_z", 1)>>

C7_Witness ==
    \E j \in DOMAIN launched :
        /\ launched[j].ok
        /\ "block_size_x" \notin DOMAIN launched[j].params
        /\ launched[j].block = <<256, 2, 1>>

(***************************************************************************)
(* C8.  The name passed to the compiler is the kernel name followed by a   *)
(* suffix determined by the configuration: two compilations have the same  *)
(* name exactly when they have the same configuration, and fake_kernel     *)
(* with block_size_x = 128 is fake_kernel_128.                             *)
(***************************************************************************)
C8_NamesIdentifyConfigurations ==
    \A a, b \in DOMAIN compiled :
        /\ StartsWith(compiled[a].name, Chars(args.kernel_name) \o <<"_">>)
        /\ compiled[a].params = compiled[b].params
              <=> compiled[a].name = compiled[b].name
        /\ ( /\ args.kernel_name = "fake_kernel"
             /\ compiled[a].params = ("block_size_x" :> 128) )
           => compiled[a].name = Chars("fake_kernel") \o <<"_", "1", "2", "8">>

C8_Witness ==
    \E a, b \in DOMAIN compiled :
        /\ compiled[a].params = ("block_size_x" :> 1) @@ ("block_size_y" :> 11)
        /\ compiled[b].params = ("block_size_x" :> 11) @@ ("block_size_y" :> 1)
        /\ compiled[a].name # compiled[b].name

(***************************************************************************)
(* C9.  Specialization binds a parameter only where its name is a whole    *)
(* token: every other token of the template, also one that contains a      *)
(* parameter name or the kernel name, is the same in the compiled source.  *)
(***************************************************************************)
RECURSIVE TokenSpecialize(_, _, _, _)
TokenSpecialize(tokens, kernel_name, p, new_name) ==
    IF tokens = <<>> THEN <<>>
    ELSE LET tok == Head(tokens)
             text == IF tok \in DOMAIN p THEN str(p[tok])
                     ELSE IF tok = kernel_name THEN new_name
                     ELSE Chars(tok)
         IN  text \o TokenSpecialize(Tail(tokens), kernel_name, p, new_name)

C9_OnlyWholeTokensAreBound ==
    \A j \in DOMAIN compiled :
        compiled[j].source =
            TokenSpecialize(args.kernel_string, args.kernel_name,
                            compiled[j].params, compiled[j].name)

(***************************************************************************)
(* C10.  A configuration whose block_size_x * block_size_y * block_size_z  *)
(* exceeds the device's max_threads is neither compiled nor launched, and  *)
(* the configurations within the limit are still evaluated.                *)
(***************************************************************************)
WithinMaxThreads(p) ==
    Dim(p, "block_size_x", 256) * Dim(p, "block_size_y", 1)
        * Dim(p, "block_size_z", 1) <= device.max_threads

C10_OversizedBlocksAreSkipped ==
    /\ \A j \in DOMAIN compiled : WithinMaxThreads(compiled[j].params)
    /\ \A j \in DOMAIN launched : WithinMaxThreads(launched[j].params)
    /\ ( /\ Terminated
         /\ backend.compile_error = {}
         /\ backend.launch_error = {}
         /\ exception \in {"None", "LaunchError"} )
       => \A p \in AllConfigs :
            WithinMaxThreads(p) => \E j \in DOMAIN compiled : compiled[j].params = p

(***************************************************************************)
(* C11.  The source handed to the compiler has, for every tunable          *)
(* parameter, the line "#define <parameter> <value>" with the              *)
(* configuration's value, and the lines "#define grid_size_x <gx>" and     *)
(* "#define grid_size_y <gy>" with the grid the configuration is launched  *)
(* with.                                                                   *)
(***************************************************************************)
DefineLine(ident, value) ==
    <<"#", "d", "e", "f", "i", "n", "e", " ">> \o ident \o <<" ">> \o value

GridSizeX == <<"g", "r", "i", "d", "_", "s", "i", "z", "e", "_", "x">>
GridSizeY == <<"g", "r", "i", "d", "_", "s", "i", "z", "e", "_", "y">>

C11_ConstantsAreDefined ==
    \A j \in DOMAIN compiled :
        /\ \A k \in DOMAIN compiled[j].params :
              Contains(compiled[j].source,
                       DefineLine(Chars(k), str(compiled[j].params[k])))
        /\ \A l \in DOMAIN launched :
              launched[l].idx = compiled[j].idx
              => /\ Contains(compiled[j].source,
                             DefineLine(GridSizeX, str(launched[l].grid[1])))
                 /\ Contains(compiled[j].source,
                             DefineLine(GridSizeY, str(launched[l].grid[2])))

(***************************************************************************)
(* C12.  With a reference answer, every configuration is verified before   *)
(* it is benchmarked: each output buffer is set to zero, the kernel is run *)
(* exactly once, the outputs are downloaded and compared; a configuration  *)
(* whose kernel leaves the outputs wrong raises nothing and is skipped,    *)
(* the others are benchmarked.                                             *)
(***************************************************************************)
Outputs == {a \in DOMAIN args.answer.list : args.answer.list[a] # "None"}

Repeat(e, n) == [j \in 1..n |-> e]

VerifyEvents ==
    Repeat("memset", Cardinality(Outputs)) \o <<"run_kernel">>
        \o Repeat("memcpy_dtoh", Cardinality(Outputs))

TimedLaunch ==
    <<"synchronize", "start.record", "launch", "end.record", "synchronize",
      "time_since">>

RECURSIVE VerifiedEvents(_)
VerifiedEvents(n) ==
    IF n = 0 THEN <<>>
    ELSE VerifiedEvents(n - 1) \o VerifyEvents
            \o (IF n \in backend.wrong THEN <<>> ELSE TimedLaunch)

C12_WrongKernelsAreSkipped ==
    ( /\ Terminated
      /\ args.answer.passed
      /\ backend.compile_error = {}
      /\ backend.launch_error = {} )
    => /\ pc = "done"
       /\ exception = "None"
       /\ events = VerifiedEvents(NumConfigs)
       /\ \A i \in 1..NumConfigs : Benchmarked(i) <=> i \notin backend.wrong

(***************************************************************************)
(* C13.  When some tunable parameter has no candidate value, the call      *)
(* fails with ConfigurationError and does no device work: nothing is       *)
(* allocated, uploaded, compiled or launched.                              *)
(***************************************************************************)
SomePoolIsEmpty == \E k \in Names : args.tune_params.values[k] = <<>>

C13_EmptyCandidateListIsRejected ==
    ( /\ SomePoolIsEmpty
      /\ ~args.restrictions.passed
      /\ ~args.answer.passed )
    => /\ mem = <<>>
       /\ compiled = <<>>
       /\ launched = <<>>
       /\ pc # "done"
       /\ Terminated => exception = "ConfigurationError"

(***************************************************************************)
(* C14.  Every grid passed to a launch is at least 1 on every axis; a      *)
(* configuration for which a problem-size extent or the value of a divisor *)
(* parameter is zero or negative fails with InvalidGeometryError and is    *)
(* not launched.                                                           *)
(***************************************************************************)
DivisorNames ==
    Range(args.grid_div_x)
        \cup (IF args.grid_div_y.is_none THEN {} ELSE Range(args.grid_div_y.names))

NonPositiveGeometry(p) ==
    \/ \E d \in 1..2 : args.problem_size[d] <= 0
    \/ \E k \in DivisorNames : p[k] <= 0

C14_GridIsPositive ==
    /\ \A j \in DOMAIN launched :
          launched[j].grid[1] >= 1 /\ launched[j].grid[2] >= 1
    /\ \A i \in DOMAIN enumerated :
          ( /\ DivisorNames \subseteq DOMAIN enumerated[i]
            /\ NonPositiveGeometry(enumerated[i]) )
          => /\ exception = "InvalidGeometryError"
             /\ \A j \in DOMAIN launched : launched[j].idx # i

(***************************************************************************)
(* C15.  Every launch uses the handle returned by a successful compile of  *)
(* the very configuration that is launched, a compile that precedes the    *)
(* launch; a configuration whose compile failed is never launched, and     *)
(* every time printed is that of a launch.                                 *)
(***************************************************************************)
C15_LaunchFollowsOwnCompile ==
    /\ \A j \in DOMAIN launched :
          /\ launched[j].func \in DOMAIN compiled
          /\ compiled[launched[j].func].ok
          /\ compiled[launched[j].func].idx = launched[j].idx
          /\ compiled[launched[j].func].params = launched[j].params
    /\ \A c \in DOMAIN compiled :
          ~compiled[c].ok
          => \A j \in DOMAIN launched : launched[j].idx # compiled[c].idx
    /\ \A e \in DOMAIN printed :
          /\ e \in DOMAIN launched
          /\ launched[e].ok
          /\ launched[e].params = printed[e].params

C15_Witness ==
    /\ Len(compiled) = 3
    /\ ~compiled[3].ok
    /\ Len(launched) = 2
    /\ launched[2].ok
    /\ launched[2].func = 2
    /\ compiled[2].idx = 2

(***************************************************************************)
(* C16.  In every benchmark the device is synchronized right before the    *)
(* start event is recorded, exactly one launch lies between the records of *)
(* the start and the end event, and the elapsed time is read only after a  *)
(* synchronize that follows the record of the end event.                   *)
(***************************************************************************)
Before(i, n) == IF i > n THEN events[i - n] ELSE "nothing"

Count(e) == Len(SelectSeq(events, LAMBDA x : x = e))

C16_BenchmarkOrder ==
    /\ \A i \in DOMAIN events :
          /\ events[i] = "start.record" => Before(i, 1) = "synchronize"
          /\ events[i] = "launch" => Before(i, 1) = "start.record"
          /\ events[i] = "end.record"
                => Before(i, 1) = "launch" /\ Before(i, 2) = "start.record"
          /\ events[i] = "time_since"
                => /\ Before(i, 1) = "synchronize"
                   /\ Before(i, 2) = "end.record"
                   /\ Before(i, 5) = "synchronize"
    /\ Count("launch") = Len(launched)
    /\ Count("time_since") = Len(Successful)
    /\ Count("synchronize") = Len(launched) + Len(Successful)

C16_Witness ==
    /\ Len(launched) = 3
    /\ ~launched[3].ok
    /\ Len(events) = 15
    /\ Count("time_since") = 2

(***************************************************************************)
(* C17.  The device buffers are allocated and filled once, before the      *)
(* first configuration: as many allocations as there are array arguments,  *)
(* however many configurations follow.  Every launch is given the same     *)
(* argument list: at the position of an array the buffer allocated for it, *)
(* at the position of a scalar the scalar itself.                          *)
(***************************************************************************)
Arrays == {i \in DOMAIN args.arguments : args.arguments[i].kind = "array"}

BufferOf(i) ==
    {m.buf : m \in {mem[n] : n \in {n \in DOMAIN mem :
                        mem[n].op = "mem_alloc" /\ mem[n].arg = i}}}

C17_ArgumentsUploadedOnce ==
    /\ pc \notin {"call", "upload"} /\ exception # "TypeError"
          => /\ Allocated = Cardinality(Arrays)
             /\ Len(mem) = 2 * Cardinality(Arrays)
             /\ \A i \in Arrays :
                  /\ Cardinality(BufferOf(i)) = 1
                  /\ \E n \in DOMAIN mem :
                        /\ mem[n].op = "memcpy_htod"
                        /\ mem[n].arg = i
                        /\ {mem[n].buf} = BufferOf(i)
    /\ enumerated # <<>> => pc \notin {"call", "upload"}
    /\ \A j \in DOMAIN launched :
          /\ Len(launched[j].args) = Len(args.arguments)
          /\ launched[j].args = launched[1].args
          /\ \A i \in DOMAIN args.arguments :
                IF i \in Arrays
                THEN /\ launched[j].args[i].kind = "devptr"
                     /\ BufferOf(i) = {launched[j].args[i].v}
                ELSE launched[j].args[i] = args.arguments[i]

(***************************************************************************)
(* C18.  When the list of divisors of an axis is empty, or absent, the     *)
(* grid has dimension 1 on that axis, whatever the problem size.           *)
(***************************************************************************)
NoDivisorsX == args.grid_div_x = <<>>
NoDivisorsY == args.grid_div_y.is_none \/ args.grid_div_y.names = <<>>

C18_GridIsOneWithoutDivisors ==
    \A j \in DOMAIN launched :
        launched[j].ok
        => /\ NoDivisorsX => launched[j].grid[1] = 1
           /\ NoDivisorsY => launched[j].grid[2] = 1

\* C18 as amended: without divisors the divisor is 1, and the grid dimension
\* on that axis is the problem size on that axis
C18_GridIsProblemSizeWithoutDivisors ==
    \A j \in DOMAIN launched :
        /\ NoDivisorsX => launched[j].grid[1] = args.problem_size[1]
        /\ NoDivisorsY => launched[j].grid[2] = args.problem_size[2]

C18_Witness ==
    \E j \in DOMAIN launched :
        /\ launched[j].ok
        /\ NoDivisorsX
        /\ ~args.grid_div_y.is_none
        /\ NoDivisorsY
        /\ args.problem_size = <<7, 3>>
        /\ launched[j].grid = <<7, 3>>

(***************************************************************************)
(* C19.  When the template contains the kernel name, the source handed to  *)
(* the compiler contains the name that is then looked up in the compiled   *)
(* module, and the lookup does not fail for want of that name; also when   *)
(* the kernel name contains the name of a tunable parameter.               *)
(***************************************************************************)
TemplateDeclaresKernel ==
    Contains(Flatten(args.kernel_string), Chars(args.kernel_name))

C19_LookedUpNameIsDeclared ==
    TemplateDeclaresKernel
    => /\ \A j \in DOMAIN compiled :
             Contains(compiled[j].source, compiled[j].name)
       /\ exception # "LogicError"

(***************************************************************************)
(* C20.  The source and the name compiled for a configuration are those    *)
(* obtained from the caller's template, the kernel name and that           *)
(* configuration alone: nothing substituted or renamed for an earlier      *)
(* configuration shows in them, two compilations of one configuration get  *)
(* the same source and name, and the template kept by the call stays the   *)
(* caller's.                                                               *)
(***************************************************************************)
C20_SpecializationStartsFromTemplate ==
    /\ pc # "call" /\ exception # "TypeError"
          => original_kernel = Flatten(args.kernel_string)
    /\ \A j \in DOMAIN compiled :
          /\ compiled[j].source =
                Specialize(Flatten(args.kernel_string), args.kernel_name,
                           compiled[j].params)
          /\ compiled[j].name = KernelName(args.kernel_name, compiled[j].params)
    /\ \A a, b \in DOMAIN compiled :
          compiled[a].params = compiled[b].params
          => /\ compiled[a].source = compiled[b].source
             /\ compiled[a].name = compiled[b].name

C20_Witness ==
    /\ args.kernel_name = "vector_add"
    /\ Len(compiled) = 4
    /\ compiled[4].ok
    /\ \A j \in 1..3 : compiled[j].source # compiled[4].source
    /\ Contains(compiled[4].source, <<"i", "=", "1", "1", ";">>)

====
